---- MODULE Spec2Model ----
(***************************************************************************)
(* A model of the Real Intent Mailchimp tool (src/app.py and the taggers   *)
(* of src/lead_tagger): the required-column check, normalize_emails, the   *)
(* optional drop of emailless leads, the two tagging policies,             *)
(* send_to_mailchimp and its _clean_phone helper.                          *)
(*                                                                         *)
(* Text is a sequence of one-character strings, so that strip, split,      *)
(* join, sorted and the phone reformatting are computed character by       *)
(* character, as the code computes them.  A cell of a DataFrame is a       *)
(* record [k, s]: k = "null" (NaN / None), k = "str" (a Python str, s its  *)
(* characters) or k = "num" (a number of a numeric column, s its decimal   *)
(* digits).                                                                *)
(***************************************************************************)
EXTENDS Naturals, Sequences, FiniteSets

VARIABLES pc, columns, raw, df, error, tag_mapping, priority_list, tagged_df,
          status_choice, i, successes, errors, posted

vars == <<pc, columns, raw, df, error, tag_mapping, priority_list, tagged_df,
          status_choice, i, successes, errors, posted>>

sendVars == <<status_choice, i, successes, errors, posted>>

tagVars == <<tag_mapping, priority_list, tagged_df, sendVars>>

\* ------------------------------------------------------------------ bounds

MaxStrLen == 3
MaxRows == 2
MaxInputLen == 2
MaxBatch == 3
MaxPhoneLen == 10

\* ------------------------------------------------------------------ values

Null == [k |-> "null", s |-> <<>>]
Str(s) == [k |-> "str", s |-> s]
Num(s) == [k |-> "num", s |-> s]

\* pd.notna / pd.isna of a scalar cell
notna(v) == v.k # "null"
isna(v) == v.k = "null"

StringsUpTo(A, n) == UNION {[1..k -> A] : k \in 0..n}

Range(f) == {f[x] : x \in DOMAIN f}

\* str.strip(): leading and trailing whitespace removed
RECURSIVE LStrip(_)
LStrip(s) == IF s = <<>> THEN s
             ELSE IF Head(s) = " " THEN LStrip(Tail(s)) ELSE s

RECURSIVE RStrip(_)
RStrip(s) == IF s = <<>> THEN s
             ELSE IF s[Len(s)] = " " THEN RStrip(SubSeq(s, 1, Len(s) - 1)) ELSE s

\* a strip that trims the left side only (str.lstrip)
StripLeftOnly(s) == LStrip(s)

Strip(s) == RStrip(LStrip(s))

\* ------------------------------------------------------------------ frames
\* A row of a DataFrame: its index label and its cells by column name.

Row(index, data) == [index |-> index, data |-> data]

email_columns == <<"email_1", "email_2", "email_3">>
required_columns == <<"email_1", "email_2", "email_3", "first_name", "last_name">>

\* Series.drop(labels)
Drop(data, labels) == [c \in (DOMAIN data) \ labels |-> data[c]]

\* series[label] = value
SetItem(data, label, value) ==
    [c \in (DOMAIN data) \cup {label} |-> IF c = label THEN value ELSE data[c]]

\* ------------------------------------------------------------------ normalize_emails

\* the inner loop over email_columns: the stripped value of every slot that
\* is not NaN, in slot order
RECURSIVE Emails(_, _)
Emails(data, cols) ==
    IF cols = <<>> THEN <<>>
    ELSE (IF notna(data[Head(cols)]) THEN <<Strip(data[Head(cols)].s)>> ELSE <<>>)
         \o Emails(data, Tail(cols))

\* row[col].strip() of a cell that is not a str (a number of a numeric
\* column) raises AttributeError
StripRaises(data) == \E c \in Range(email_columns) : data[c].k = "num"

\* the rows one input row contributes
RECURSIVE NewRows(_, _)
NewRows(row, emails) ==
    IF emails = <<>> THEN <<>>
    ELSE <<Row(row.index, SetItem(Drop(row.data, Range(email_columns)), "email", Str(Head(emails))))>>
         \o NewRows(row, Tail(emails))

ExpandRow(row) ==
    LET emails == Emails(row.data, email_columns)
    IN  IF emails # <<>> THEN NewRows(row, emails)
        ELSE <<Row(row.index, SetItem(Drop(row.data, Range(email_columns)), "email", Null))>>

\* rows inserted at the front of the list instead of appended
RECURSIVE normalize_rows_prepend(_)
normalize_rows_prepend(frame) ==
    IF frame = <<>> THEN <<>>
    ELSE normalize_rows_prepend(Tail(frame)) \o ExpandRow(Head(frame))

RECURSIVE normalize_rows(_)
normalize_rows(frame) ==
    IF frame = <<>> THEN <<>>
    ELSE ExpandRow(Head(frame)) \o normalize_rows(Tail(frame))

\* normalize_emails(df): the new frame, or the exception that ends the call
normalize_emails(frame) ==
    IF \E n \in DOMAIN frame : StripRaises(frame[n].data)
    THEN [ok |-> FALSE, rows |-> <<>>, exc |-> "AttributeError"]
    ELSE [ok |-> TRUE, rows |-> normalize_rows(frame), exc |-> ""]

\* the columns of pd.DataFrame(rows): none at all when rows is empty
FrameColumns(frame) == UNION {DOMAIN frame[n].data : n \in DOMAIN frame}

\* df.dropna(subset=["email"])
dropna_email(frame) == SelectSeq(frame, LAMBDA r : notna(r.data["email"]))

\* ------------------------------------------------------------------ inputs
\* pd.read_csv turns an empty field into NaN, keeps any other text as a str
\* (whitespace included) and makes a column of numbers numeric.

Alphabet == {" ", "a"}

EmailTexts == StringsUpTo(Alphabet, MaxStrLen) \ {<<>>}

EmailVals == {Null, Num(<<"1">>)} \cup {Str(s) : s \in EmailTexts}

SimpleVals == {Null, Str(<<"a">>), Str(<<"b">>)}

NameVal == Str(<<"a">>)

RowsOver(cols, vals) ==
    {[c \in cols |-> IF c \in Range(email_columns) THEN e[c] ELSE NameVal] :
        e \in [cols \cap Range(email_columns) -> vals]}

\* frames of exactly n rows with a RangeIndex 0..n-1
FramesOf(cols, vals, n) ==
    {[j \in 1..n |-> Row(j - 1, d[j])] : d \in [1..n -> RowsOver(cols, vals)]}

Frames(cols, vals, maxrows) == UNION {FramesOf(cols, vals, n) : n \in 0..maxrows}

RequiredSet == Range(required_columns)

NoError == [kind |-> "", missing |-> <<>>]

\* nothing of send_to_mailchimp has run
NotSending ==
    /\ status_choice = ""
    /\ i = 0
    /\ successes = 0
    /\ errors = <<>>
    /\ posted = <<>>

\* ------------------------------------------------------------------ the app, up to the hoisted frame

Init ==
    /\ pc = "loaded"
    /\ columns \in SUBSET RequiredSet
    /\ raw \in (IF columns = RequiredSet
                THEN Frames(columns, EmailVals, 1) \cup Frames(columns, SimpleVals, MaxRows)
                ELSE Frames(columns, SimpleVals, 1))
    /\ df = <<>>
    /\ error = NoError
    /\ tag_mapping = <<>>
    /\ priority_list = <<>>
    /\ tagged_df = <<>>
    /\ NotSending

\* the error naming every required column rather than the missing ones
missing_columns_all == required_columns

missing_columns == SelectSeq(required_columns, LAMBDA col : col \notin columns)

\* lines 282-287: the required-column check, st.error and st.stop
CheckColumns ==
    /\ pc = "loaded"
    /\ IF ~ (\A n \in DOMAIN required_columns : required_columns[n] \in columns)
       THEN /\ pc' = "stopped"
            /\ error' = [kind |-> "missing_columns", missing |-> missing_columns]
       ELSE /\ pc' = "validated"
            /\ error' = error
    /\ UNCHANGED <<columns, raw, df, tagVars>>

\* line 289
Normalize ==
    /\ pc = "validated"
    /\ LET r == normalize_emails(raw)
       IN  IF r.ok
           THEN /\ pc' = "normalized"
                /\ df' = r.rows
                /\ error' = error
           ELSE /\ pc' = "crashed"
                /\ df' = df
                /\ error' = [kind |-> r.exc, missing |-> <<>>]
    /\ UNCHANGED <<columns, raw, tagVars>>

\* lines 291-297: the checkbox, the drop of emailless leads, the hoist of
\* email, first_name, last_name (a KeyError on a frame with no columns)
FilterAndHoist ==
    /\ pc = "normalized"
    /\ \E include_no_email \in BOOLEAN :
         LET hasEmail == "email" \in FrameColumns(df)
             kept == IF include_no_email THEN df ELSE dropna_email(df)
         IN  IF ~ hasEmail
             THEN /\ pc' = "crashed"
                  /\ df' = df
                  /\ error' = [kind |-> "KeyError", missing |-> <<>>]
             ELSE /\ pc' = IF include_no_email THEN "ready_all" ELSE "ready_emails"
                  /\ df' = kept
                  /\ error' = error
    /\ UNCHANGED <<columns, raw, tagVars>>

Next == CheckColumns \/ Normalize \/ FilterAndHoist

Spec == Init /\ [][Next]_vars

\* ------------------------------------------------------------------ text of tags

\* code points of the characters of the model
Code(c) == CASE c = " " -> 32 [] c = "," -> 44 [] c = "-" -> 45
             [] c = "0" -> 48 [] c = "1" -> 49 [] c = "5" -> 53
             [] c = "a" -> 97 [] c = "b" -> 98

\* Python's str < str
RECURSIVE LtStr(_, _)
LtStr(x, y) ==
    IF y = <<>> THEN FALSE
    ELSE IF x = <<>> THEN TRUE
    ELSE IF Head(x) = Head(y) THEN LtStr(Tail(x), Tail(y))
    ELSE Code(Head(x)) < Code(Head(y))

\* sorted(tags) of a set of str
RECURSIVE sorted(_)
sorted(S) ==
    IF S = {} THEN <<>>
    ELSE LET m == CHOOSE x \in S : \A y \in S \ {x} : LtStr(x, y)
         IN  <<m>> \o sorted(S \ {m})

\* sep.join(list)
RECURSIVE Join(_, _)
Join(list, sep) ==
    IF list = <<>> THEN <<>>
    ELSE IF Len(list) = 1 THEN Head(list)
    ELSE Head(list) \o sep \o Join(Tail(list), sep)

\* the text before the first comma, and the text after it
RECURSIVE BeforeComma(_)
BeforeComma(s) ==
    IF s = <<>> \/ Head(s) = "," THEN <<>> ELSE <<Head(s)>> \o BeforeComma(Tail(s))

\* str.split(",")
RECURSIVE Split(_)
Split(s) ==
    LET first == BeforeComma(s)
    IN  IF Len(first) = Len(s) THEN <<first>>
        ELSE <<first>> \o Split(SubSeq(s, Len(first) + 2, Len(s)))

RECURSIVE StripAll(_)
StripAll(list) ==
    IF list = <<>> THEN <<>> ELSE <<Strip(Head(list))>> \o StripAll(Tail(list))

\* ------------------------------------------------------------------ the taggers

default_columns == <<
    "first_name", "last_name", "email_1", "email_2", "email_3", "phone_1",
    "phone_1_dnc", "phone_2", "phone_2_dnc", "phone_3", "phone_3_dnc",
    "address", "city", "state", "zip_code", "zip4", "fips_state_code",
    "fips_county_code", "county_name", "latitude", "longitude", "age",
    "gender", "address_type", "cbsa", "census_tract", "census_block_group",
    "census_block", "scf", "dma", "msa", "congressional_district",
    "head_of_household", "birth_month_and_year", "prop_type",
    "n_household_children", "credit_range", "household_income",
    "household_net_worth", "home_owner_status", "marital_status",
    "occupation", "median_home_value", "education", "length_of_residence",
    "n_household_adults", "political_party", "health_beauty_products",
    "cosmetics", "jewelry", "investment_type", "investments", "pet_owner",
    "pets_affinity", "health_affinity", "diet_affinity", "fitness_affinity",
    "outdoors_affinity", "boating_sailing_affinity",
    "camping_hiking_climbing_affinity", "fishing_affinity",
    "hunting_affinity", "aerobics", "nascar", "scuba", "weight_lifting",
    "healthy_living_interest", "motor_racing", "foreign_travel",
    "self_improvement", "walking", "fitness", "ethnicity_detail",
    "ethnic_group", "md5", "insight", "email">>

DefaultSet == Range(default_columns)

\* the columns of the frame in file order: the fixed ones, then the intent
\* columns of the upload
ColumnOrder == <<"email", "first_name", "last_name", "wants_pool", "wants_garage">>

\* Series.get(col): None when the row has no such column
Get(data, col) == IF col \in DOMAIN data THEN data[col] ELSE Null

\* the loop both taggers share: the union of the tags of the fired columns,
\* the mapping taken in the order of its keys
RECURSIVE FiredTags(_, _)
FiredTags(data, mapping) ==
    IF mapping = <<>> THEN {}
    ELSE (IF notna(Get(data, Head(mapping).col)) THEN Range(Head(mapping).tags) ELSE {})
         \cup FiredTags(data, Tail(mapping))

\* the tags of the fired columns kept in a list, in the order met
RECURSIVE FiredList(_, _)
FiredList(data, mapping) ==
    IF mapping = <<>> THEN <<>>
    ELSE (IF notna(Get(data, Head(mapping).col)) THEN Head(mapping).tags ELSE <<>>)
         \o FiredList(data, Tail(mapping))

\* a tagger that joins that list as it is, neither deduplicated nor sorted
StandardTagger_generate_tags_unsorted(data, mapping, priority) ==
    [ok |-> TRUE, tags |-> Join(FiredList(data, mapping), <<",", " ">>)]

\* StandardTagger.generate_tags
StandardTagger_generate_tags(data, mapping, priority) ==
    [ok |-> TRUE, tags |-> Join(sorted(FiredTags(data, mapping)), <<",", " ">>)]

\* list.index(x): the first position of x, 0 standing for ValueError
IndexOf(list, x) ==
    IF x \in Range(list)
    THEN CHOOSE n \in DOMAIN list : list[n] = x /\ \A j \in 1..(n - 1) : list[j] # x
    ELSE 0

\* sorted(tags, key=...) of a set of str whose keys differ
RECURSIVE sorted_by_index(_, _)
sorted_by_index(S, list) ==
    IF S = {} THEN <<>>
    ELSE LET m == CHOOSE x \in S : \A y \in S : IndexOf(list, x) <= IndexOf(list, y)
         IN  <<m>> \o sorted_by_index(S \ {m}, list)

\* a tagger that takes the first fired tag in alphabetical order, whatever
\* the priority list says
Custom_1_Tagger_generate_tags_alphabetical(data, mapping, priority) ==
    LET sorted_tags == sorted(FiredTags(data, mapping))
    IN  [ok |-> TRUE, tags |-> IF sorted_tags # <<>> THEN sorted_tags[1] ELSE <<>>]

\* Custom_1_Tagger.generate_tags
Custom_1_Tagger_generate_tags(data, mapping, priority) ==
    LET tags == FiredTags(data, mapping)
    IN  IF \E t \in tags : IndexOf(priority, t) = 0
        THEN [ok |-> FALSE, tags |-> <<>>]
        ELSE LET sorted_tags == sorted_by_index(tags, priority)
             IN  [ok |-> TRUE, tags |-> IF sorted_tags # <<>> THEN sorted_tags[1] ELSE <<>>]

generate_tags(cls, data, mapping, priority) ==
    IF cls = "StandardTagger" THEN StandardTagger_generate_tags(data, mapping, priority)
    ELSE Custom_1_Tagger_generate_tags(data, mapping, priority)

\* a tagger that keeps the caller's frame itself (no df.copy())
BaseTagger_init_shared(cls, frame, mapping, priority) ==
    [cls |-> cls, df |-> frame, shares_input |-> TRUE,
     tag_mapping |-> mapping, priority_list |-> priority]

\* BaseTagger.__init__: the tagger works on a copy of the frame
BaseTagger_init(cls, frame, mapping, priority) ==
    [cls |-> cls, df |-> frame, shares_input |-> FALSE,
     tag_mapping |-> mapping, priority_list |-> priority]

\* BaseTagger.apply_tags: the tags column set row by row on self.df
apply_tags(self) ==
    IF \E n \in DOMAIN self.df :
         ~ generate_tags(self.cls, self.df[n].data, self.tag_mapping, self.priority_list).ok
    THEN [ok |-> FALSE, rows |-> <<>>, exc |-> "ValueError"]
    ELSE [ok |-> TRUE, exc |-> "",
          rows |-> [n \in DOMAIN self.df |->
                      Row(self.df[n].index,
                          SetItem(self.df[n].data, "tags",
                                  Str(generate_tags(self.cls, self.df[n].data, self.tag_mapping,
                                                    self.priority_list).tags)))]]

\* tag_leads
tag_leads(frame, mapping, cls, priority) ==
    LET tagger == BaseTagger_init(cls, frame, mapping, priority)
    IN  [result |-> apply_tags(tagger), shares_input |-> tagger.shares_input]

\* lines 324-332: the intent columns and the mapping typed for them; a
\* column whose input is empty gets no entry
intent_columns(cols) ==
    SelectSeq(ColumnOrder, LAMBDA col : col \in cols /\ col \notin DefaultSet)

RECURSIVE BuildMapping(_, _)
BuildMapping(cols, inputs) ==
    IF cols = <<>> THEN <<>>
    ELSE (IF inputs[Head(cols)] # <<>>
          THEN <<[col |-> Head(cols), tags |-> StripAll(Split(inputs[Head(cols)]))]>>
          ELSE <<>>)
         \o BuildMapping(Tail(cols), inputs)

\* line 343: sorted({tag for tags in tag_mapping.values() for tag in tags})
all_tags(mapping) == sorted(UNION {Range(mapping[n].tags) : n \in DOMAIN mapping})

\* sort_items(all_tags): the tags in the order the user dragged them to
Orderings(list) ==
    {p \in [DOMAIN list -> Range(list)] : Range(p) = Range(list)}

\* ------------------------------------------------------------------ the app, from the hoisted frame to the tagged one

IntentColumns == {"wants_pool", "wants_garage"}

IntentVals == {Null, Str(<<"a">>)}

TagAlphabet == {"a", ",", " "}

TagInputs == StringsUpTo(TagAlphabet, MaxInputLen)

NormalizedColumns == {"email", "first_name", "last_name"} \cup IntentColumns

NormalizedRows ==
    {[c \in NormalizedColumns |->
        IF c = "email" THEN e ELSE IF c \in IntentColumns THEN v[c] ELSE NameVal] :
        e \in {Null, Str(<<"a">>)}, v \in [IntentColumns -> IntentVals]}

NormalizedFrames ==
    UNION {{[j \in 1..n |-> Row(j - 1, d[j])] : d \in [1..n -> NormalizedRows]} : n \in 0..MaxRows}

InitTag ==
    /\ pc = "ready"
    /\ columns = NormalizedColumns
    /\ raw = <<>>
    /\ df \in NormalizedFrames
    /\ error = NoError
    /\ tag_mapping = <<>>
    /\ priority_list = <<>>
    /\ tagged_df = <<>>
    /\ NotSending

\* lines 324-332
MapTags ==
    /\ pc = "ready"
    /\ \E inputs \in [Range(intent_columns(columns)) -> TagInputs] :
         tag_mapping' = BuildMapping(intent_columns(columns), inputs)
    /\ pc' = "mapped"
    /\ UNCHANGED <<columns, raw, df, error, priority_list, tagged_df, sendVars>>

\* the call of tag_leads and its effect on the frames of the script
Tagged(call, done) ==
    IF call.result.ok
    THEN /\ pc' = done
         /\ tagged_df' = call.result.rows
         /\ df' = IF call.shares_input THEN call.result.rows ELSE df
         /\ error' = error
    ELSE /\ pc' = "crashed"
         /\ tagged_df' = tagged_df
         /\ df' = df
         /\ error' = [kind |-> call.result.exc, missing |-> <<>>]

\* lines 338-339
TagStandard ==
    /\ pc = "mapped"
    /\ Tagged(tag_leads(df, tag_mapping, "StandardTagger", <<>>), "tagged_standard")
    /\ UNCHANGED <<columns, raw, tag_mapping, priority_list, sendVars>>

\* lines 340-355
TagCustom ==
    /\ pc = "mapped"
    /\ \E sorted_priority \in Orderings(all_tags(tag_mapping)) :
         /\ priority_list' = sorted_priority
         /\ IF sorted_priority = <<>>
            THEN /\ pc' = "stopped"
                 /\ error' = [kind |-> "no_mapping", missing |-> <<>>]
                 /\ UNCHANGED <<df, tagged_df>>
            ELSE Tagged(tag_leads(df, tag_mapping, "Custom_1_Tagger", sorted_priority),
                        "tagged_custom")
    /\ UNCHANGED <<columns, raw, tag_mapping, sendVars>>

NextTag == MapTags \/ TagStandard \/ TagCustom

SpecTag == InitTag /\ [][NextTag]_vars

\* ------------------------------------------------------------------ send_to_mailchimp

\* _safe_get
safe_get(val) == IF isna(val) THEN Str(<<>>) ELSE val

Digits == {"0", "1", "5"}

\* float(phone) accepts, of the texts of the model, an optional sign and
\* decimal digits, surrounding whitespace ignored; anything else raises
\* ValueError
IsNumberText(s) ==
    LET t == Strip(s)
        d == IF t # <<>> /\ Head(t) = "-" THEN Tail(t) ELSE t
    IN  d # <<>> /\ \A n \in DOMAIN d : d[n] \in Digits

RECURSIVE DropZeros(_)
DropZeros(d) == IF d # <<>> /\ Head(d) = "0" THEN DropZeros(Tail(d)) ELSE d

\* str(int(float(phone))): the decimal digits without leading zeros, a
\* minus sign before them for a negative number (the numbers of the model
\* are below 2^53, where float and int agree)
IntText(s) ==
    LET t == Strip(s)
        neg == Head(t) = "-"
        d == DropZeros(IF neg THEN Tail(t) ELSE t)
    IN  IF d = <<>> THEN <<"0">> ELSE IF neg THEN <<"-">> \o d ELSE d

\* _clean_phone
clean_phone(phone) ==
    IF isna(phone) THEN <<>>
    ELSE IF ~ IsNumberText(phone.s) THEN <<>>
    ELSE LET p == Strip(IntText(phone.s))
         IN  IF Len(p) = 10
             THEN <<"(">> \o SubSeq(p, 1, 3) \o <<")", " ">> \o SubSeq(p, 4, 6)
                  \o <<" ", "-", " ">> \o SubSeq(p, 7, Len(p))
             ELSE <<>>

\* row.get(col, default)
GetOr(data, col, default) == IF col \in DOMAIN data THEN data[col] ELSE default

\* [tag.strip() for tag in raw_tags if tag.strip()]
RECURSIVE NonEmptyStripped(_)
NonEmptyStripped(list) ==
    IF list = <<>> THEN <<>>
    ELSE (IF Strip(Head(list)) # <<>> THEN <<Strip(Head(list))>> ELSE <<>>)
         \o NonEmptyStripped(Tail(list))

\* lines 221-225
payload_tags(data) ==
    IF "tags" \in DOMAIN data
    THEN LET raw_tags == safe_get(GetOr(data, "tags", Str(<<>>)))
         IN  IF raw_tags.k = "str" THEN NonEmptyStripped(Split(raw_tags.s)) ELSE <<>>
    ELSE <<>>

\* lines 201-225
payload(data, email, status) ==
    [email_address |-> email.s,
     status |-> status,
     FNAME |-> safe_get(GetOr(data, "first_name", Str(<<>>))),
     LNAME |-> safe_get(GetOr(data, "last_name", Str(<<>>))),
     PHONE |-> clean_phone(GetOr(data, "phone_1", Str(<<>>))),
     tags |-> payload_tags(data)]

\* `not email`: None and the empty string
Falsy(email) == isna(email) \/ (email.k = "str" /\ email.s = <<>>)

\* what requests.post does: a response with a status code, or an exception
Responses ==
    {[raised |-> FALSE, status_code |-> 200, text |-> "ok"],
     [raised |-> FALSE, status_code |-> 400, text |-> "Bad Request"],
     [raised |-> TRUE, status_code |-> 0, text |-> "ConnectionError"]}

\* an exception handler that starts the error list afresh
record_outcome_reset(resp, email, succ, errs) ==
    IF resp.raised THEN [successes |-> succ, errors |-> <<<<email, resp.text>>>>]
    ELSE IF resp.status_code >= 400
         THEN [successes |-> succ, errors |-> Append(errs, <<email, resp.text>>)]
         ELSE [successes |-> succ + 1, errors |-> errs]

\* lines 233-241: the tallies after one response
record_outcome(resp, email, succ, errs) ==
    IF resp.raised THEN [successes |-> succ, errors |-> Append(errs, <<email, resp.text>>)]
    ELSE IF resp.status_code >= 400
         THEN [successes |-> succ, errors |-> Append(errs, <<email, resp.text>>)]
         ELSE [successes |-> succ + 1, errors |-> errs]

\* two of the five statuses the selectbox offers
StatusOptions == {"subscribed", "pending"}

\* lines 368-381 and 192-193: a status chosen and the button pressed
StartSend ==
    /\ pc \in {"tagged_standard", "tagged_custom"}
    /\ status_choice' \in StatusOptions
    /\ pc' = "sending"
    /\ i' = 1
    /\ successes' = 0
    /\ errors' = <<>>
    /\ posted' = <<>>
    /\ UNCHANGED <<columns, raw, df, error, tag_mapping, priority_list, tagged_df>>

\* lines 195-241: one turn of the loop over the rows
SendRow ==
    /\ pc = "sending"
    /\ i <= Len(tagged_df)
    /\ LET data == tagged_df[i].data
           email == Get(data, "email")
       IN  IF Falsy(email)
           THEN UNCHANGED <<successes, errors, posted>>
           ELSE \E resp \in Responses :
                  LET out == record_outcome(resp, email.s, successes, errors)
                  IN  /\ posted' = Append(posted, [row |-> i, resp |-> resp,
                                                    payload |-> payload(data, email, status_choice)])
                      /\ successes' = out.successes
                      /\ errors' = out.errors
    /\ i' = i + 1
    /\ UNCHANGED <<pc, columns, raw, df, error, tag_mapping, priority_list, tagged_df,
                   status_choice>>

\* lines 243 and 383-387: the tallies returned and shown
Return ==
    /\ pc = "sending"
    /\ i > Len(tagged_df)
    /\ pc' = "sent"
    /\ UNCHANGED <<columns, raw, df, error, tag_mapping, priority_list, tagged_df, sendVars>>

NextSend == StartSend \/ SendRow \/ Return

TaggedColumns == {"email", "tags", "first_name", "last_name", "phone_1"}

TaggedRows(emails, phones) ==
    {[c \in TaggedColumns |->
        IF c = "email" THEN e
        ELSE IF c = "phone_1" THEN ph
        ELSE IF c = "tags" THEN Str(<<"a", ",", " ", "a", "a">>)
        ELSE NameVal] : e \in emails, ph \in phones}

TaggedFrames(emails, phones, maxrows) ==
    UNION {{[j \in 1..n |-> Row(j - 1, d[j])] : d \in [1..n -> TaggedRows(emails, phones)]} :
              n \in 0..maxrows}

InitSend ==
    /\ pc = "tagged_standard"
    /\ columns = TaggedColumns
    /\ raw = <<>>
    /\ df = <<>>
    /\ error = NoError
    /\ tag_mapping = <<>>
    /\ priority_list = <<>>
    /\ tagged_df \in TaggedFrames({Null, Str(<<>>), Str(<<"a">>)}, {Null}, MaxBatch)
    /\ NotSending

SpecSend == InitSend /\ [][NextSend]_vars

\* the phone numbers of an upload: a text, or a number of a numeric column
PhoneAlphabet == {"0", "5", "-"}

\* a row of the tagged frame with an email and the given phone_1
PhoneRow(phone) ==
    [c \in TaggedColumns |->
        IF c = "email" THEN Str(<<"a">>)
        ELSE IF c = "phone_1" THEN phone
        ELSE IF c = "tags" THEN Str(<<"a", ",", " ", "a", "a">>)
        ELSE NameVal]

\* a number of a numeric column reads as its decimal digits
IsIntText(t) == IsNumberText(t) /\ IntText(t) = t

InitPhone ==
    /\ pc = "tagged_standard"
    /\ columns = TaggedColumns
    /\ raw = <<>>
    /\ df = <<>>
    /\ error = NoError
    /\ tag_mapping = <<>>
    /\ priority_list = <<>>
    /\ \E n \in 0..MaxPhoneLen : \E t \in [1..n -> PhoneAlphabet] :
         \E phone \in {Str(t)} \cup (IF IsIntText(t) THEN {Num(t)} ELSE {})
                                \cup (IF t = <<>> THEN {Null} ELSE {}) :
            tagged_df = <<Row(0, PhoneRow(phone))>>
    /\ NotSending

SpecPhone == InitPhone /\ [][NextSend]_vars

\* ------------------------------------------------------------------ properties of the normalization

\* the input row an output row was derived from (rows keep their index label)
Source(r) == CHOOSE src \in Range(raw) : src.index = r.index

NoOuterSpace(t) == t = <<>> \/ (Head(t) # " " /\ t[Len(t)] # " ")

\* t is s without its leading and trailing whitespace
IsTrimOf(t, s) ==
    /\ NoOuterSpace(t)
    /\ \E a \in 0..Len(s) :
         /\ a + Len(t) <= Len(s)
         /\ \A n \in 1..a : s[n] = " "
         /\ \A n \in 1..Len(t) : s[a + n] = t[n]
         /\ \A n \in (a + Len(t) + 1)..Len(s) : s[n] = " "

\* a slot that holds a non-null value that is non-empty after trimming
Usable(v) == notna(v) /\ \E n \in DOMAIN v.s : v.s[n] # " "

UsableCount(data) == Cardinality({c \in Range(email_columns) : Usable(data[c])})

Derived(row) == SelectSeq(df, LAMBDA r : r.index = row.index)

Normalized == pc \in {"normalized", "ready_all", "ready_emails"}

\* C1: after normalization and the optional drop, every input record has as
\* many output records as it has usable email slots, or exactly one (email
\* absent) when it has none and emailless leads are retained, or none when
\* they are not retained.
C1_RecordCount ==
    pc \in {"ready_all", "ready_emails"} =>
        \A n \in DOMAIN raw :
            LET u == UsableCount(raw[n].data)
                d == Derived(raw[n])
            IN  IF u > 0 THEN Len(d) = u
                ELSE IF pc = "ready_all" THEN Len(d) = 1 /\ isna(d[1].data["email"])
                ELSE Len(d) = 0

\* C2: every normalized record has no email_1..email_3 field, its email is
\* absent or the trimmed value (no leading or trailing whitespace) of one of
\* the source record's slots, and all other fields are those of the source.
C2_NormalizedShape ==
    Normalized =>
        \A n \in DOMAIN df :
            LET r == df[n]
                src == Source(r)
            IN  /\ \E s \in Range(raw) : s.index = r.index
                /\ (DOMAIN r.data) \cap Range(email_columns) = {}
                /\ "email" \in DOMAIN r.data
                /\ \/ isna(r.data["email"])
                   \/ /\ r.data["email"].k = "str"
                      /\ NoOuterSpace(r.data["email"].s)
                      /\ \E c \in Range(email_columns) :
                           /\ src.data[c].k = "str"
                           /\ IsTrimOf(r.data["email"].s, src.data[c].s)
                /\ (DOMAIN r.data) \ {"email"} = (DOMAIN src.data) \ Range(email_columns)
                /\ \A c \in (DOMAIN r.data) \ {"email"} : r.data[c] = src.data[c]

C2_Witness ==
    /\ pc = "normalized"
    /\ \E n \in DOMAIN df :
         /\ df[n].data["email"] = Str(<<"a">>)
         /\ Source(df[n]).data["email_2"] = Str(<<" ", "a", " ">>)
         /\ isna(Source(df[n]).data["email_1"])
         /\ isna(Source(df[n]).data["email_3"])

\* C5: with all required columns present the pipeline never aborts,
\* whatever the record values.
C5_OnlyMissingColumnsFatal ==
    RequiredSet \subseteq columns => pc # "crashed"

\* C6: a missing required column halts the pipeline before normalization
\* with an error naming exactly the missing required columns, and nothing
\* is produced; with none missing that error is never raised.
C6_MissingColumns ==
    /\ RequiredSet \ columns # {} =>
         /\ pc \in {"loaded", "stopped"}
         /\ df = <<>>
    /\ pc = "stopped" =>
         /\ error.kind = "missing_columns"
         /\ Range(error.missing) = RequiredSet \ columns
         /\ Len(error.missing) = Cardinality(RequiredSet \ columns)
         /\ ~ ENABLED Next
    /\ RequiredSet \subseteq columns =>
         /\ pc # "stopped"
         /\ error.kind # "missing_columns"

C6_Witness ==
    /\ pc = "stopped"
    /\ columns = RequiredSet \ {"first_name"}
    /\ error.missing = <<"first_name">>
    /\ raw # <<>>

\* C9: records derived from an earlier input record precede those derived
\* from a later one, and the records derived from one input record follow
\* the order of the slots their emails come from.
C9_OrderPreserved ==
    Normalized =>
        /\ \A p, q \in DOMAIN df : p < q => df[p].index <= df[q].index
        /\ \A n \in DOMAIN raw :
             LET d == SelectSeq(Derived(raw[n]), LAMBDA r : notna(r.data["email"]))
             IN  \E f \in [DOMAIN d -> DOMAIN email_columns] :
                   /\ \A p, q \in DOMAIN d : p < q => f[p] < f[q]
                   /\ \A p \in DOMAIN d :
                        /\ raw[n].data[email_columns[f[p]]].k = "str"
                        /\ IsTrimOf(d[p].data["email"].s, raw[n].data[email_columns[f[p]]].s)

C9_Witness ==
    /\ pc = "normalized"
    /\ Len(raw) = 2
    /\ Len(df) = 5
    /\ df[1].data["email"] = Str(<<"b">>)
    /\ df[2].data["email"] = Str(<<"a">>)
    /\ df[2].index = 0
    /\ df[3].index = 1

\* ------------------------------------------------------------------ properties of the taggers

\* the tags listed for the mapped columns that are non-null in the record
Fired(data) ==
    {t \in UNION {Range(tag_mapping[m].tags) : m \in DOMAIN tag_mapping} :
        \E m \in DOMAIN tag_mapping :
            /\ tag_mapping[m].col \in DOMAIN data
            /\ data[tag_mapping[m].col].k # "null"
            /\ t \in Range(tag_mapping[m].tags)}

SomeMappedColumnFired(data) ==
    \E m \in DOMAIN tag_mapping :
        tag_mapping[m].col \in DOMAIN data /\ data[tag_mapping[m].col].k # "null"

\* text is the tags of S, each once, in ascending order, joined by ", "
IsSortedJoin(text, S) ==
    \E list \in [1..Cardinality(S) -> S] :
        /\ \A p, q \in DOMAIN list : p < q => LtStr(list[p], list[q])
        /\ text = Join(list, <<",", " ">>)

\* the same mapping with its keys in any other order
Reorderings(mapping) ==
    {[n \in DOMAIN mapping |-> mapping[p[n]]] :
        p \in {q \in [DOMAIN mapping -> DOMAIN mapping] : Range(q) = DOMAIN mapping}}

KeyOrderIndependent(data, text) ==
    \A other \in Reorderings(tag_mapping) :
        StandardTagger_generate_tags(data, other, <<>>).tags = text

\* C3 as stated: the tags of every record tagged by StandardTagger are the
\* fired tags, deduplicated, ascending, joined by ", "; empty exactly when
\* no mapped column is non-null; the same for every order of the keys.
C3_UnionTaggerAsStated ==
    pc = "tagged_standard" =>
        \A n \in DOMAIN tagged_df :
            LET text == tagged_df[n].data["tags"].s
            IN  /\ IsSortedJoin(text, Fired(df[n].data))
                /\ text = <<>> <=> ~ SomeMappedColumnFired(df[n].data)
                /\ KeyOrderIndependent(df[n].data, text)

\* C3 as amended: the same, the result being empty exactly when no fired
\* tag is a non-empty string.
C3_UnionTagger ==
    pc = "tagged_standard" =>
        \A n \in DOMAIN tagged_df :
            LET text == tagged_df[n].data["tags"].s
            IN  /\ IsSortedJoin(text, Fired(df[n].data))
                /\ text = <<>> <=> Fired(df[n].data) \subseteq {<<>>}
                /\ KeyOrderIndependent(df[n].data, text)

C3_Witness ==
    /\ pc = "tagged_standard"
    /\ Len(tag_mapping) = 2
    /\ \E n \in DOMAIN tagged_df :
         /\ Fired(df[n].data) = {<<"a">>, <<"a", "a">>}
         /\ tag_mapping[1].tags = <<<<"a", "a">>>>
         /\ tag_mapping[2].tags = <<<<"a">>>>
         /\ tagged_df[n].data["tags"].s = <<"a", ",", " ", "a", "a">>

\* C4: with every tag of the mapping in the priority list, the tag of every
\* record tagged by Custom_1_Tagger is empty when no tag fired and otherwise
\* the one fired tag that comes first in the priority list, never a joined
\* list and never a tag that did not fire.
C4_PriorityTagger ==
    (/\ pc = "tagged_custom"
     /\ \A m \in DOMAIN tag_mapping : Range(tag_mapping[m].tags) \subseteq Range(priority_list)) =>
        \A n \in DOMAIN tagged_df :
            LET text == tagged_df[n].data["tags"].s
                fired == Fired(df[n].data)
            IN  /\ fired = {} => text = <<>>
                /\ fired # {} =>
                     /\ text \in fired
                     /\ \E p \in DOMAIN priority_list :
                          /\ priority_list[p] = text
                          /\ \A q \in DOMAIN priority_list :
                               priority_list[q] \in fired => p <= q
                /\ "," \notin Range(text)

C4_Witness ==
    /\ pc = "tagged_custom"
    /\ priority_list = <<<<"a", "a">>, <<"a">>>>
    /\ \E n \in DOMAIN tagged_df :
         /\ Fired(df[n].data) = {<<"a">>, <<"a", "a">>}
         /\ tagged_df[n].data["tags"].s = <<"a", "a">>

\* C10: a tagging step returns one tagged record per record of its input, in
\* the same order, every field but tags as in the input, records without an
\* email included, and leaves the input frame as it was, without a tags
\* field.
C10_TaggingFrame ==
    [][pc' \in {"tagged_standard", "tagged_custom"} =>
        /\ df' = df
        /\ \A n \in DOMAIN df : "tags" \notin DOMAIN df'[n].data
        /\ DOMAIN tagged_df' = DOMAIN df
        /\ \A n \in DOMAIN df :
             /\ tagged_df'[n].index = df[n].index
             /\ DOMAIN tagged_df'[n].data = (DOMAIN df[n].data) \cup {"tags"}
             /\ tagged_df'[n].data["tags"].k = "str"
             /\ \A c \in DOMAIN df[n].data : tagged_df'[n].data[c] = df[n].data[c]]_vars

C10_Witness ==
    /\ pc = "tagged_custom"
    /\ Len(tagged_df) = 2
    /\ isna(tagged_df[1].data["email"])
    /\ tagged_df[1].data["tags"] = Str(<<"a">>)
    /\ tagged_df[2].data["email"] = Str(<<"a">>)
    /\ tagged_df[2].data["tags"] = Str(<<>>)

\* ------------------------------------------------------------------ properties of the submission

\* an email that is there: not null and not the empty string
Present(email) == email.k = "str" /\ email.s # <<>>

RowEmail(n) == tagged_df[n].data["email"]

FailedResponse(resp) == resp.raised \/ resp.status_code >= 400

FailedPosts == SelectSeq(posted, LAMBDA e : FailedResponse(e.resp))

\* the tallies and the requests agree with the records processed so far
BatchTally ==
    pc \in {"sending", "sent"} =>
        LET done == 1..(i - 1)
            withEmail == {n \in done : Present(RowEmail(n))}
        IN  /\ i - 1 <= Len(tagged_df)
            /\ \A p, q \in DOMAIN posted : p < q => posted[p].row < posted[q].row
            /\ {posted[p].row : p \in DOMAIN posted} = withEmail
            /\ successes = Cardinality({p \in DOMAIN posted : ~ FailedResponse(posted[p].resp)})
            /\ Len(errors) = Len(FailedPosts)
            /\ \A k \in DOMAIN errors :
                 errors[k] = <<RowEmail(FailedPosts[k].row).s, FailedPosts[k].resp.text>>
            /\ successes + Len(errors) = Cardinality(withEmail)
            /\ pc = "sent" => i - 1 = Len(tagged_df)

IsPrefix(a, b) == Len(a) <= Len(b) /\ \A n \in DOMAIN a : a[n] = b[n]

\* C7: every record of the batch is processed once and in order, a record
\* without an email sends no request, any other record adds one success or
\* one (email, message) error; no step lowers the success count or removes
\* an error, a failure does not end the batch, and at the end successes
\* plus errors is the number of records with an email.
C7_BatchOutcomes ==
    [][/\ BatchTally'
       /\ successes' >= successes
       /\ IsPrefix(errors, errors')
       /\ (pc = "sending" /\ pc' = "sending") => i' = i + 1]_vars

C7_Witness ==
    /\ pc = "sent"
    /\ Len(tagged_df) = 3
    /\ Len(posted) = 2
    /\ posted[1].row = 1 /\ posted[1].resp.raised
    /\ isna(RowEmail(2))
    /\ posted[2].row = 3 /\ posted[2].resp.status_code = 200
    /\ successes = 1
    /\ errors = <<<<<<"a">>, "ConnectionError">>>>

\* ------------------------------------------------------------------ properties of the phone number

IsDigit(c) == c \in Digits

DigitsOf(v) == SelectSeq(v.s, IsDigit)

\* text is the ten digits d as (XXX) XXX - XXXX
IsFormatted(text, d) ==
    /\ Len(text) = 16
    /\ text[1] = "(" /\ text[5] = ")" /\ text[6] = " "
    /\ text[10] = " " /\ text[11] = "-" /\ text[12] = " "
    /\ \A n \in 1..3 : text[1 + n] = d[n]
    /\ \A n \in 4..6 : text[3 + n] = d[n]
    /\ \A n \in 7..10 : text[6 + n] = d[n]

\* C8: the PHONE merge field of every request is the ten digits of phone_1
\* as (XXX) XXX - XXXX when phone_1 holds exactly ten digits, and the empty
\* string in every other case.
C8_PhoneField ==
    \A p \in DOMAIN posted :
        LET phone == tagged_df[posted[p].row].data["phone_1"]
            text == posted[p].payload.PHONE
        IN  IF Len(DigitsOf(phone)) = 10
            THEN IsFormatted(text, DigitsOf(phone))
            ELSE text = <<>>

====
